---- MODULE Spec2Model ----
(***************************************************************************)
(* Model of the faas-rust runtime:                                         *)
(*   - faas_rust_macro/src/lib.rs : the #[faas_function] attribute macro,  *)
(*     which classifies the declared parameter and return types and        *)
(*     generates the handle_event request handler;                         *)
(*   - faas_rust/src/response_writer.rs : write_cloud_event and the two    *)
(*     encoders write_binary / write_structured.                           *)
(* The request reader (faas_rust::request_reader) follows the decoding     *)
(* rules of the design document.                                           *)
(***************************************************************************)
EXTENDS Integers, Sequences, FiniteSets, TLC

\* ------------------------------------------------------------------------
\* Bounds of the model
\* ------------------------------------------------------------------------
MaxParams == 2      \* longest declared parameter list (runtime pipeline)
MaxBatch == 3       \* longest decoded batch handed to the binding code
MaxOut == 3         \* longest Vec<Event> a user function returns

\* ------------------------------------------------------------------------
\* Rust's Option
\* ------------------------------------------------------------------------
None == [some |-> FALSE]
Some(x) == [some |-> TRUE, val |-> x]

\* ------------------------------------------------------------------------
\* syn syntax trees: Type, Path, PathSegment, PathArguments, GenericArgument
\* ------------------------------------------------------------------------
NoArguments == [kind |-> "None"]
AngleBracketed(args) == [kind |-> "AngleBracketed", args |-> args]
TypeArg(ty) == [kind |-> "Type", ty |-> ty]
LifetimeArg == [kind |-> "Lifetime"]
Segment(ident, arguments) == [ident |-> ident, arguments |-> arguments]
PathType(qself, leading_colon, segments) ==
    [kind |-> "Path", qself |-> qself,
     path |-> [leading_colon |-> leading_colon, segments |-> segments]]
ReferenceType == [kind |-> "Reference"]
TupleType == [kind |-> "Tuple"]
Simple(ident) == PathType(FALSE, FALSE, <<Segment(ident, NoArguments)>>)
Generic(ident, args) == PathType(FALSE, FALSE, <<Segment(ident, AngleBracketed(args))>>)

\* Declared types used as inputs of the macro
TyEvent == Simple("Event")
TyQualifiedEvent ==
    PathType(FALSE, FALSE, <<Segment("cloudevent", NoArguments), Segment("Event", NoArguments)>>)
TyAssocEvent ==
    PathType(TRUE, FALSE, <<Segment("Trait", NoArguments), Segment("Event", NoArguments)>>)
TyString == Simple("String")
TyOptionEvent == Generic("Option", <<TypeArg(TyEvent)>>)
TyOptionQualifiedEvent == Generic("Option", <<TypeArg(TyQualifiedEvent)>>)
TyOptionString == Generic("Option", <<TypeArg(TyString)>>)
TyOptionBare == Simple("Option")
TyOptionLifetime == Generic("Option", <<LifetimeArg>>)
TyOptionRef == Generic("Option", <<TypeArg(ReferenceType)>>)
TyStdOptionEvent ==
    PathType(FALSE, FALSE, <<Segment("std", NoArguments), Segment("option", NoArguments),
                             Segment("Option", AngleBracketed(<<TypeArg(TyEvent)>>))>>)
TyGlobalOptionEvent ==
    PathType(FALSE, TRUE, <<Segment("Option", AngleBracketed(<<TypeArg(TyEvent)>>))>>)
TyOptionEmpty == Generic("Option", <<>>)
TyGenericEvent == Generic("Event", <<TypeArg(TyString)>>)
TyVecEvent == Generic("Vec", <<TypeArg(TyEvent)>>)
TyVecEmpty == Generic("Vec", <<>>)
TyError == Simple("Error")
TyResult(v) == Generic("Result", <<TypeArg(v), TypeArg(TyError)>>)

\* FnArg and ReturnType
Typed(ty) == [kind |-> "Typed", ty |-> ty]
Receiver == [kind |-> "Receiver"]
ReturnDefault == [kind |-> "Default"]
ReturnTypeOf(ty) == [kind |-> "Type", ty |-> ty]

Last(s) == s[Len(s)]

\* ------------------------------------------------------------------------
\* Type inspection helpers of the macro
\* ------------------------------------------------------------------------
path_is(path, name) ==
    /\ ~path.leading_colon
    /\ Len(path.segments) = 1
    /\ path.segments[1].ident = name

\* The guard of the match arm shared by extract_type_from_vec/_option
wraps(ty, name) ==
    ty.kind = "Path" /\ ~ty.qself /\ path_is(ty.path, name)

\* params.args.first().unwrap() on an empty angle-bracketed list: a panic
first_unwrap_panics(ty, name) ==
    /\ wraps(ty, name)
    /\ ty.path.segments[1].arguments.kind = "AngleBracketed"
    /\ Len(ty.path.segments[1].arguments.args) = 0

extract_type_from(ty, name) ==
    IF wraps(ty, name)
    THEN LET type_params == ty.path.segments[1].arguments
         IN IF type_params.kind = "AngleBracketed" /\ Len(type_params.args) > 0
            THEN LET generic_arg == type_params.args[1]
                 IN IF generic_arg.kind = "Type" THEN Some(generic_arg.ty) ELSE None
            ELSE None
    ELSE None

extract_type_from_vec(ty) == extract_type_from(ty, "Vec")

extract_type_from_option(ty) == extract_type_from(ty, "Option")

\* Mutant: any path type passes for Event
is_event_any_path(ty) == ty.kind = "Path"

is_event(ty) ==
    ty.kind = "Path" /\ Last(ty.path.segments).ident = "Event"

is_option_event(ty) ==
    LET extracted == extract_type_from_option(ty)
    IN extracted.some /\ is_event(extracted.val)

is_vec_event(ty) ==
    LET extracted == extract_type_from_vec(ty)
    IN extracted.some /\ is_event(extracted.val)

IsTypeArg(ga) == ga.kind = "Type"

extract_types_from_result(ty) ==
    IF wraps(ty, "Result")
    THEN LET type_params == ty.path.segments[1].arguments
         IN IF type_params.kind = "AngleBracketed"
            THEN LET generic_arguments == SelectSeq(type_params.args, IsTypeArg)
                 IN IF Len(generic_arguments) >= 2
                    THEN Some(<<generic_arguments[1].ty, generic_arguments[2].ty>>)
                    ELSE None
            ELSE None
    ELSE None

extract_type_from_fn_arg(fn_arg) ==
    IF fn_arg.kind = "Typed" THEN Some(fn_arg.ty) ELSE None

\* ------------------------------------------------------------------------
\* generate_handler: the binding statements, the invocation, the mapper
\* ------------------------------------------------------------------------
ParamError == "Type should be Event or Option<Event>"
ReturnError ==
    "Return type should be Result<V, E>, where V is Vec<Event> or Option<Event> or Event"

\* varname _arg{i} is kept as the index i; the identifier "err" as -1
\* Mutant: the position in the message is the 0-based index
RequiredStmt_zero_based(i) == [kind |-> "Required", varname |-> i, num |-> i, msg |-> ""]

RequiredStmt(i) == [kind |-> "Required", varname |-> i, num |-> i + 1, msg |-> ""]
OptionalStmt(i) == [kind |-> "Optional", varname |-> i, num |-> 0, msg |-> ""]
CompileError(msg) == [kind |-> "CompileError", varname |-> -1, num |-> 0, msg |-> msg]

\* i is the 0-based index given by enumerate()
input_extracted(i, arg) ==
    LET ty == extract_type_from_fn_arg(arg)
    IN IF ty.some /\ is_event(ty.val) THEN RequiredStmt(i)
       ELSE IF ty.some /\ is_option_event(ty.val) THEN OptionalStmt(i)
       ELSE CompileError(ParamError)

map_output(rt) ==
    LET result_type == IF rt.kind = "Type" THEN extract_types_from_result(rt.ty) ELSE None
    IN IF ~result_type.some THEN None
       ELSE LET result_left == result_type.val[1]
            IN IF is_vec_event(result_left) THEN Some("output")
               ELSE IF is_option_event(result_left) THEN Some("from_iter")
               ELSE IF is_event(result_left) THEN Some("vec_of")
               ELSE None

\* The macro aborts (proc-macro panic) when an unwrap() in the helpers fails
arg_panics(arg) ==
    LET ty == extract_type_from_fn_arg(arg)
    IN ty.some /\ ~is_event(ty.val) /\ first_unwrap_panics(ty.val, "Option")

output_panics(rt) ==
    LET result_type == IF rt.kind = "Type" THEN extract_types_from_result(rt.ty) ELSE None
    IN /\ result_type.some
       /\ \/ first_unwrap_panics(result_type.val[1], "Vec")
          \/ first_unwrap_panics(result_type.val[1], "Option")

generate_handler(function_ast) ==
    LET inputs == function_ast.inputs
        stmts == [i \in 1..Len(inputs) |-> input_extracted(i - 1, inputs[i])]
        mapper == map_output(function_ast.output)
    IN IF (\E i \in 1..Len(inputs) : arg_panics(inputs[i])) \/ output_panics(function_ast.output)
       THEN [status |-> "panic", stmts |-> <<>>, idents |-> <<>>,
             await |-> FALSE, output_mapper |-> ""]
       ELSE [status |-> IF (\E i \in 1..Len(inputs) : stmts[i].kind = "CompileError")
                           \/ ~mapper.some
                        THEN "compile_error" ELSE "ok",
             stmts |-> stmts,
             idents |-> [i \in 1..Len(inputs) |-> stmts[i].varname],
             await |-> function_ast.asyncness,
             output_mapper |-> IF mapper.some THEN mapper.val ELSE ReturnError]

\* ------------------------------------------------------------------------
\* cloudevent::Event and cloudevent::http
\* ------------------------------------------------------------------------
BINARY == "BINARY"
STRUCTURED == "STRUCTURED"
Encodings == {BINARY, STRUCTURED}
DEFAULT_ENCODING == BINARY

CE_ID_HEADER == "ce-id"
CE_SPECVERSION_HEADER == "ce-specversion"
CE_SOURCE_HEADER == "ce-source"
CE_TYPE_HEADER == "ce-type"
CE_SUBJECT_HEADER == "ce-subject"
CE_TIME_HEADER == "ce-time"
CE_HEADERS == {CE_ID_HEADER, CE_SPECVERSION_HEADER, CE_SOURCE_HEADER,
               CE_TYPE_HEADER, CE_SUBJECT_HEADER, CE_TIME_HEADER}
STRUCTURED_CONTENT_TYPE == "application/cloudevents+json"

SpecVersions == {"V03", "V10"}
\* Timestamps: seconds since the epoch and the offset of the zone, in hours
Times == {[secs |-> 0, offset |-> 0], [secs |-> 3600, offset |-> 1]}
ContentTypes == {"text/plain", STRUCTURED_CONTENT_TYPE}
Datas == {<<>>, <<104, 105>>}
Payloads == [content_type : ContentTypes, data : Datas]

OptionOf(S) == {None} \cup {Some(x) : x \in S}

Events ==
    [id : {"a", "b"}, spec_version : SpecVersions, source : {"/test"},
     event_type : {"demo"}, subject : OptionOf({"sub"}), time : OptionOf(Times),
     payload : OptionOf(Payloads)]

\* SpecVersion's Display
spec_version_to_string(v) == IF v = "V03" THEN "0.3" ELSE "1.0"

\* DateTime::to_rfc3339: local date-time followed by the zone offset
to_rfc3339(t) ==
    IF t.secs = 0 /\ t.offset = 0 THEN "1970-01-01T00:00:00+00:00"
    ELSE IF t.secs = 3600 /\ t.offset = 1 THEN "1970-01-01T02:00:00+01:00"
    ELSE "1970-01-01T00:00:00+00:00"

\* ------------------------------------------------------------------------
\* HTTP responses (actix_web::HttpResponse), reduced to what the writer sets
\* ------------------------------------------------------------------------
NoError == [msg |-> "", num |-> 0]
NoHeaders == [h \in CE_HEADERS |-> None]

HttpResponse(status, headers, content_type, body, encoder, error) ==
    [status |-> status, headers |-> headers, content_type |-> content_type,
     body |-> body, encoder |-> encoder, error |-> error]

\* Result<T, E>, and the outcome of a call that panics
Ok(x) == [kind |-> "Ok", val |-> x]
Err(e) == [kind |-> "Err", val |-> e]
Panic(what) == [kind |-> "Panic", val |-> what]

\* Message bodies: raw bytes, or the bytes of a JSON document
Bytes(data) == [kind |-> "bytes", data |-> data]
JsonBytes(doc) == [kind |-> "json", data |-> doc]
EmptyBody == Bytes(<<>>)

ErrorResponse(status, msg, num) ==
    HttpResponse(status, NoHeaders, None, EmptyBody, "none", [msg |-> msg, num |-> num])

\* ------------------------------------------------------------------------
\* response_writer.rs
\* ------------------------------------------------------------------------
\* write_binary, "Write headers": one header per attribute that is present
binary_headers(event) ==
    [h \in CE_HEADERS |->
       IF h = CE_ID_HEADER THEN Some(event.id)
       ELSE IF h = CE_SPECVERSION_HEADER
            THEN Some(spec_version_to_string(event.spec_version))
       ELSE IF h = CE_SOURCE_HEADER THEN Some(event.source)
       ELSE IF h = CE_TYPE_HEADER THEN Some(event.event_type)
       ELSE IF h = CE_SUBJECT_HEADER
            THEN (IF event.subject.some THEN Some(event.subject.val) ELSE None)
       ELSE (IF event.time.some THEN Some(to_rfc3339(event.time.val)) ELSE None)]

\* write_binary, `let result = ...`: content type and body from the payload
binary_result(event, headers) ==
    IF event.payload.some
    THEN HttpResponse(200, headers, Some(event.payload.val.content_type),
                      Bytes(event.payload.val.data), "binary", NoError)
    ELSE HttpResponse(200, headers, None, EmptyBody, "binary", NoError)

\* Mutant: the optional subject header is written even when there is none
write_binary_always_subject(event) ==
    Ok(binary_result(event,
         [binary_headers(event) EXCEPT ![CE_SUBJECT_HEADER] =
             IF event.subject.some THEN Some(event.subject.val) ELSE Some("")]))

\* Mutant: the body is written without the payload's content type
write_binary_without_content_type(event) ==
    Ok([binary_result(event, binary_headers(event)) EXCEPT !.content_type = None])

write_binary(event) == Ok(binary_result(event, binary_headers(event)))

\* serde_json::to_vec(&event): the structured CloudEvents JSON document
serde_json_to_vec(event) ==
    Ok([id |-> event.id,
        specversion |-> spec_version_to_string(event.spec_version),
        source |-> event.source,
        type |-> event.event_type,
        subject |-> event.subject,
        time |-> IF event.time.some THEN Some(to_rfc3339(event.time.val)) ELSE None,
        datacontenttype |->
            IF event.payload.some THEN Some(event.payload.val.content_type) ELSE None,
        data |-> IF event.payload.some THEN Some(event.payload.val.data) ELSE None])

write_structured(event) ==
    LET j == serde_json_to_vec(event)
    IN IF j.kind = "Ok"
       THEN Ok(HttpResponse(200, NoHeaders, Some(STRUCTURED_CONTENT_TYPE), JsonBytes(j.val),
                            "structured", NoError))
       ELSE Err(ErrorResponse(500, "serialization", 0))

\* Mutant: a batch of several events is cut down to its first event
write_cloud_event_truncating(ce, e) ==
    IF Len(ce) >= 1
    THEN LET encoding == IF e.some THEN e.val ELSE DEFAULT_ENCODING
         IN IF encoding = STRUCTURED THEN write_structured(ce[1])
            ELSE write_binary(ce[1])
    ELSE Ok(HttpResponse(202, NoHeaders, None, EmptyBody, "none", NoError))

\* Mutant: an empty batch answers 200 OK instead of 202 Accepted
write_cloud_event_empty_ok(ce, e) ==
    IF Len(ce) = 1
    THEN LET encoding == IF e.some THEN e.val ELSE DEFAULT_ENCODING
         IN IF encoding = STRUCTURED THEN write_structured(ce[1])
            ELSE write_binary(ce[1])
    ELSE IF Len(ce) = 0
    THEN Ok(HttpResponse(200, NoHeaders, None, EmptyBody, "none", NoError))
    ELSE Panic("not implemented")

\* Mutant: the requested encoding is ignored, the default is always used
write_cloud_event_default_only(ce, e) ==
    IF Len(ce) = 1
    THEN write_binary(ce[1])
    ELSE IF Len(ce) = 0
    THEN Ok(HttpResponse(202, NoHeaders, None, EmptyBody, "none", NoError))
    ELSE Panic("not implemented")

\* e is an Option<Encoding>; the third arm is unimplemented!()
write_cloud_event(ce, e) ==
    IF Len(ce) = 1
    THEN LET encoding == IF e.some THEN e.val ELSE DEFAULT_ENCODING
         IN IF encoding = STRUCTURED THEN write_structured(ce[1])
            ELSE write_binary(ce[1])
    ELSE IF Len(ce) = 0
    THEN Ok(HttpResponse(202, NoHeaders, None, EmptyBody, "none", NoError))
    ELSE Panic("not implemented")

\* ------------------------------------------------------------------------
\* The generated handle_event
\* ------------------------------------------------------------------------
\* Mutant: events.reverse() is left out
reverse_left_out(v) == v

reverse(v) == [i \in 1..Len(v) |-> v[Len(v) + 1 - i]]

\* Vec::pop: removes and returns the last element, None when empty
pop(v) ==
    IF Len(v) = 0 THEN [val |-> None, rest |-> v]
    ELSE [val |-> Some(v[Len(v)]), rest |-> SubSeq(v, 1, Len(v) - 1)]

ErrorBadRequest(msg, num) == ErrorResponse(400, msg, num)

\* The `Some(..) => .. / None => (None, vec![])` unzip of the reader's value
unzip(value) ==
    IF value.some
    THEN [encoding |-> Some(value.val[1]), events |-> value.val[2]]
    ELSE [encoding |-> None, events |-> <<>>]

\* Mutant: a missing required event does not end the request
RECURSIVE run_stmts_unchecked(_, _, _, _)
run_stmts_unchecked(stmts, k, evs, env) ==
    IF k > Len(stmts) THEN Ok([env |-> env, events |-> evs])
    ELSE LET popped == pop(evs)
             stmt == stmts[k]
         IN run_stmts_unchecked(stmts, k + 1, popped.rest, (stmt.varname :> popped.val) @@ env)

\* #(#input_extracted_stmts)* : the statements run in order from the k-th on;
\* env maps the variable _arg{i} to its value
RECURSIVE run_stmts(_, _, _, _)
run_stmts(stmts, k, evs, env) ==
    IF k > Len(stmts) THEN Ok([env |-> env, events |-> evs])
    ELSE LET popped == pop(evs)
             stmt == stmts[k]
         IN IF stmt.kind = "Required"
            THEN IF popped.val.some
                 THEN run_stmts(stmts, k + 1, popped.rest,
                                (stmt.varname :> popped.val.val) @@ env)
                 ELSE Err(ErrorBadRequest("Expecting event in position", stmt.num))
            ELSE run_stmts(stmts, k + 1, popped.rest, (stmt.varname :> popped.val) @@ env)

\* #user_function_name(#(#input_extracted_ident),*)
invocation_args(idents, env) == [k \in 1..Len(idents) |-> env[idents[k]]]

\* Mutant: a returned sequence is handed on in reverse order
apply_output_mapper_reversing(mapper, out) ==
    IF mapper = "output" THEN [i \in 1..Len(out) |-> out[Len(out) + 1 - i]]
    ELSE IF mapper = "from_iter" THEN (IF out.some THEN <<out.val>> ELSE <<>>)
    ELSE <<out>>

\* let mapped_output: Vec<cloudevent::Event> = #output_mapper;
apply_output_mapper(mapper, out) ==
    IF mapper = "output" THEN out
    ELSE IF mapper = "from_iter" THEN (IF out.some THEN <<out.val>> ELSE <<>>)
    ELSE <<out>>

\* ------------------------------------------------------------------------
\* Inputs of the runtime pipeline
\* ------------------------------------------------------------------------
SeqsUpTo(S, n) == UNION {[1..k -> S] : k \in 0..n}

EventA ==
    [id |-> "a", spec_version |-> "V10", source |-> "/test", event_type |-> "demo",
     subject |-> None, time |-> None, payload |-> None]
EventB ==
    [id |-> "b", spec_version |-> "V03", source |-> "/test", event_type |-> "demo",
     subject |-> Some("sub"), time |-> Some([secs |-> 3600, offset |-> 1]),
     payload |-> Some([content_type |-> "text/plain", data |-> <<104, 105>>])]
PipelineEvents == {EventA, EventB}

Function(inputs, output, asyncness) ==
    [inputs |-> inputs, output |-> output, asyncness |-> asyncness]

RuntimeFunctions ==
    {Function(inputs, ReturnTypeOf(TyResult(v)), asyncness) :
        inputs \in SeqsUpTo({Typed(TyEvent), Typed(TyOptionEvent)}, MaxParams),
        v \in {TyEvent, TyOptionEvent, TyVecEvent},
        asyncness \in BOOLEAN}

\* What read_cloud_event may hand back: an error, None, or an encoding and a batch
ReadResults ==
    {Err(ErrorResponse(400, "decode", 0)), Ok(None)}
    \cup {Ok(Some(<<enc, batch>>)) :
            enc \in Encodings, batch \in SeqsUpTo(PipelineEvents, MaxBatch)}

\* What a user function with the given success type may return
\* V of the declared return type Result<V, E>
DeclaredV(f) == f.output.ty.path.segments[1].arguments.args[1].ty

FunctionValues(f) ==
    IF DeclaredV(f) = TyVecEvent THEN SeqsUpTo(PipelineEvents, MaxOut)
    ELSE IF DeclaredV(f) = TyOptionEvent THEN OptionOf(PipelineEvents)
    ELSE PipelineEvents

\* Its error arm, as the actix_web::Error the `?` turns it into
FunctionErrors == {ErrorResponse(st, "function", 0) : st \in {400, 500}}

\* ------------------------------------------------------------------------
\* State
\* ------------------------------------------------------------------------
VARIABLES
    function_ast,   \* the user function's signature given to the macro
    handler,        \* what generate_handler produced for it
    pc,             \* position of the request in handle_event
    value,          \* result of read_cloud_event
    encoding,       \* Option<Encoding> after the unzip
    events,         \* the reversed batch, as left by the binding statements
    env,            \* the variables _arg{i} bound so far
    received,       \* the arguments the user function was called with
    output,         \* the user function's Result
    mapped_output,  \* the Vec<Event> given to write_cloud_event
    response,       \* the HttpResponse of the request, once there is one
    invoked,        \* calls of the user function for this request
    written,        \* calls of write_cloud_event for this request
    event,          \* codec: the event to encode
    requested,      \* codec: the encoding to use
    wire,           \* codec: the encoder's result
    decoded         \* codec: what the reader makes of the encoded message

macro_vars == <<function_ast, handler>>
request_vars ==
    <<value, encoding, events, env, received, output, mapped_output, response,
      invoked, written>>
codec_vars == <<event, requested, wire, decoded>>
vars == <<macro_vars, pc, request_vars, codec_vars>>

Pending == [kind |-> "Pending", val |-> ""]

RequestInit ==
    /\ value = Pending
    /\ encoding = None
    /\ events = <<>>
    /\ env = <<>>
    /\ received = <<>>
    /\ output = Pending
    /\ mapped_output = <<>>
    /\ response = None
    /\ invoked = 0
    /\ written = 0

CodecIdle ==
    /\ event = EventA
    /\ requested = DEFAULT_ENCODING
    /\ wire = Pending
    /\ decoded = Pending

\* ------------------------------------------------------------------------
\* Spec: a built function serving requests through handle_event
\* ------------------------------------------------------------------------
Init ==
    /\ function_ast \in RuntimeFunctions
    /\ handler = generate_handler(function_ast)
    /\ handler.status = "ok"
    /\ pc = "request"
    /\ RequestInit
    /\ CodecIdle

\* let value = read_cloud_event(req, body).await?;
ReadCloudEvent ==
    /\ pc = "request"
    /\ \E r \in ReadResults :
         /\ value' = r
         /\ IF r.kind = "Err"
            THEN response' = Some(r.val) /\ pc' = "done"
            ELSE response' = response /\ pc' = "bind"
    /\ UNCHANGED <<macro_vars, codec_vars, encoding, events, env, received, output,
                   mapped_output, invoked, written>>

\* the unzip, events.reverse() and the binding statements
Bind ==
    /\ pc = "bind"
    /\ LET u == unzip(value.val)
           r == run_stmts(handler.stmts, 1, reverse(u.events), <<>>)
       IN /\ encoding' = u.encoding
          /\ IF r.kind = "Err"
             THEN /\ response' = Some(r.val)
                  /\ pc' = "done"
                  /\ UNCHANGED <<env, events>>
             ELSE /\ env' = r.val.env
                  /\ events' = r.val.events
                  /\ pc' = "invoke"
                  /\ UNCHANGED response
    /\ UNCHANGED <<macro_vars, codec_vars, value, received, output, mapped_output,
                   invoked, written>>

\* let output = user_function(_arg0, ...)[.await]?;
InvokeReturning(res) ==
    /\ pc = "invoke"
    /\ invoked' = invoked + 1
    /\ received' = invocation_args(handler.idents, env)
    /\ output' = res
    /\ IF res.kind = "Err"
       THEN response' = Some(res.val) /\ pc' = "done"
       ELSE response' = response /\ pc' = "write"
    /\ UNCHANGED <<macro_vars, codec_vars, value, encoding, events, env, mapped_output,
                   written>>

Invoke ==
    \/ \E v \in FunctionValues(function_ast) : InvokeReturning(Ok(v))
    \/ \E e \in FunctionErrors : InvokeReturning(Err(e))

\* let mapped_output = #output_mapper; write_cloud_event(mapped_output, encoding)
Write ==
    /\ pc = "write"
    /\ LET mapped == apply_output_mapper(handler.output_mapper, output.val)
           r == write_cloud_event(mapped, encoding)
       IN /\ mapped_output' = mapped
          /\ written' = written + 1
          /\ IF r.kind = "Panic"
             THEN response' = response /\ pc' = "panicked"
             ELSE response' = Some(r.val) /\ pc' = "done"
    /\ UNCHANGED <<macro_vars, codec_vars, value, encoding, events, env, received,
                   output, invoked>>

\* the response is out; the server hands the next request to handle_event
NewRequest ==
    /\ pc = "done"
    /\ pc' = "request"
    /\ value' = Pending
    /\ encoding' = None
    /\ events' = <<>>
    /\ env' = <<>>
    /\ received' = <<>>
    /\ output' = Pending
    /\ mapped_output' = <<>>
    /\ response' = None
    /\ invoked' = 0
    /\ written' = 0
    /\ UNCHANGED <<macro_vars, codec_vars>>

Next == ReadCloudEvent \/ Bind \/ Invoke \/ Write \/ NewRequest

Spec == Init /\ [][Next]_vars

\* ------------------------------------------------------------------------
\* Properties of the request pipeline (Spec)
\* ------------------------------------------------------------------------
\* The batch as the reader decoded it, before the handler touches it
Batch == IF value.kind = "Ok" /\ value.val.some THEN value.val.val[2] ELSE <<>>
RequestEncoding == IF value.kind = "Ok" /\ value.val.some THEN Some(value.val.val[1]) ELSE None
NumParams == Len(function_ast.inputs)
IsRequired(k) == function_ast.inputs[k] = Typed(TyEvent)
IsOptional(k) == function_ast.inputs[k] = Typed(TyOptionEvent)
\* Some required parameter has no event left for it
Exhausted(k) == IsRequired(k) /\ Len(Batch) < k
BindingFails == \E k \in 1..NumParams : Exhausted(k)
FirstExhausted ==
    CHOOSE k \in 1..NumParams : Exhausted(k) /\ \A j \in 1..(k - 1) : ~Exhausted(j)
IsErrorResponse(r) == r.some /\ r.val.status >= 400 /\ r.val.encoder = "none"

\* C1: the user function runs at most once per request, and only once the
\* reader has succeeded and every parameter is bound; a reader error or a
\* parameter that cannot be bound ends the request with an error response and
\* no invocation; the function's error arm ends it with an error response and
\* no call of write_cloud_event.
C1_ShortCircuit ==
    /\ invoked <= 1
    /\ written <= 1
    /\ invoked = 1 =>
          /\ value.kind = "Ok"
          /\ ~BindingFails
          /\ DOMAIN received = 1..NumParams
    /\ written = 1 => invoked = 1 /\ output.kind = "Ok"
    /\ value.kind = "Err" =>
          invoked = 0 /\ written = 0 /\ pc = "done" /\ IsErrorResponse(response)
    /\ (value.kind = "Ok" /\ BindingFails /\ pc # "bind") =>
          invoked = 0 /\ written = 0 /\ pc = "done" /\ IsErrorResponse(response)
    /\ output.kind = "Err" =>
          written = 0 /\ pc = "done" /\ IsErrorResponse(response)

C1_Witness ==
    /\ pc = "done"
    /\ invoked = 1
    /\ output.kind = "Err"
    /\ written = 0
    /\ NumParams = 2
    /\ IsErrorResponse(response)

\* C2: when the function is called, its k-th argument is the k-th event of
\* the decoded batch if the batch has one, and "no event" for an Option<Event>
\* parameter if it has not; an Option<Event> parameter never fails the binding.
C2_BindingOrder ==
    /\ invoked = 1 =>
          \A k \in 1..NumParams :
             IF Len(Batch) >= k
             THEN /\ IsRequired(k) => received[k] = Batch[k]
                  /\ IsOptional(k) => received[k] = Some(Batch[k])
             ELSE IsOptional(k) /\ received[k] = None
    /\ (value.kind = "Ok" /\ pc = "done" /\ invoked = 0) =>
          \E k \in 1..NumParams : Exhausted(k)

C2_Witness ==
    /\ invoked = 1
    /\ NumParams = 2
    /\ IsRequired(1) /\ IsRequired(2)
    /\ Batch = <<EventA, EventB>>
    /\ received = <<EventA, EventB>>

\* C3: when a required parameter finds the batch exhausted, the response is
\* 400 Bad Request "Expecting event in position N", N being the 1-based
\* position, in the full declared list, of the first such parameter.
C3_ExhaustionPosition ==
    (value.kind = "Ok" /\ BindingFails /\ pc # "bind") =>
        /\ response.some
        /\ response.val.status = 400
        /\ response.val.error.msg = "Expecting event in position"
        /\ response.val.error.num = FirstExhausted

C3_Witness ==
    /\ pc = "done"
    /\ NumParams = 2
    /\ IsRequired(1) /\ IsRequired(2)
    /\ Len(Batch) = 1
    /\ response.val.status = 400
    /\ response.val.error.num = 2

\* C4: write_cloud_event on two or more events produces no response at all:
\* it panics, whatever the requested encoding.
C4_MultiEventFatal ==
    (written = 1 /\ Len(mapped_output) >= 2) => (pc = "panicked" /\ ~response.some)

C4_Witness ==
    /\ pc = "panicked"
    /\ written = 1
    /\ Len(mapped_output) = 3
    /\ encoding = Some(STRUCTURED)

\* C5: write_cloud_event on an empty batch answers 202 with an empty body,
\* no CloudEvent header and no Content-Type, whatever the requested encoding.
C5_EmptyBatchAccepted ==
    (written = 1 /\ Len(mapped_output) = 0) =>
        /\ pc = "done"
        /\ response.some
        /\ response.val.status = 202
        /\ response.val.body = EmptyBody
        /\ \A h \in CE_HEADERS : ~response.val.headers[h].some
        /\ ~response.val.content_type.some

C5_Witness ==
    /\ written = 1
    /\ mapped_output = <<>>
    /\ encoding = Some(STRUCTURED)
    /\ response.some
    /\ response.val.status = 202

C7_ReturnNormalization ==
    written = 1 =>
        IF DeclaredV(function_ast) = TyEvent
        THEN mapped_output = <<output.val>>
        ELSE IF DeclaredV(function_ast) = TyOptionEvent
        THEN IF output.val.some
             THEN mapped_output = <<output.val.val>>
             ELSE mapped_output = <<>> /\ response.some /\ response.val.status = 202
        ELSE mapped_output = output.val

C7_Witness ==
    /\ written = 1
    /\ DeclaredV(function_ast) = TyVecEvent
    /\ output = Ok(<<EventA, EventB>>)
    /\ mapped_output = <<EventA, EventB>>

\* ------------------------------------------------------------------------
\* The request reader's decoding rules (faas_rust::request_reader)
\* ------------------------------------------------------------------------
parse_spec_version(s) == IF s = "0.3" THEN "V03" ELSE "V10"

parse_rfc3339(s) ==
    IF s = "1970-01-01T02:00:00+01:00" THEN [secs |-> 3600, offset |-> 1]
    ELSE [secs |-> 0, offset |-> 0]

from_json(doc) ==
    [id |-> doc.id,
     spec_version |-> parse_spec_version(doc.specversion),
     source |-> doc.source,
     event_type |-> doc.type,
     subject |-> doc.subject,
     time |-> IF doc.time.some THEN Some(parse_rfc3339(doc.time.val)) ELSE None,
     payload |-> IF doc.data.some
                 THEN Some([content_type |-> IF doc.datacontenttype.some
                                             THEN doc.datacontenttype.val ELSE "",
                            data |-> doc.data.val])
                 ELSE None]

REQUIRED_HEADERS ==
    {CE_ID_HEADER, CE_SPECVERSION_HEADER, CE_SOURCE_HEADER, CE_TYPE_HEADER}

\* msg: the headers, the Content-Type and the body of an HTTP message
read_cloud_event(msg) ==
    IF msg.content_type = Some(STRUCTURED_CONTENT_TYPE)
    THEN IF msg.body.kind = "json"
         THEN Ok(Some(<<STRUCTURED, <<from_json(msg.body.data)>>>>))
         ELSE Err(ErrorResponse(400, "malformed", 0))
    ELSE IF (\A h \in CE_HEADERS : ~msg.headers[h].some) /\ msg.body = EmptyBody
    THEN Ok(None)
    ELSE IF \E h \in REQUIRED_HEADERS : ~msg.headers[h].some
    THEN Err(ErrorResponse(400, "missing attribute", 0))
    ELSE Ok(Some(<<BINARY,
           <<[id |-> msg.headers[CE_ID_HEADER].val,
              spec_version |-> parse_spec_version(msg.headers[CE_SPECVERSION_HEADER].val),
              source |-> msg.headers[CE_SOURCE_HEADER].val,
              event_type |-> msg.headers[CE_TYPE_HEADER].val,
              subject |-> msg.headers[CE_SUBJECT_HEADER],
              time |-> IF msg.headers[CE_TIME_HEADER].some
                       THEN Some(parse_rfc3339(msg.headers[CE_TIME_HEADER].val))
                       ELSE None,
              payload |-> IF msg.body # EmptyBody
                          THEN Some([content_type |-> IF msg.content_type.some
                                                      THEN msg.content_type.val ELSE "",
                                     data |-> msg.body.data])
                          ELSE None]>>>>))

\* ------------------------------------------------------------------------
\* SpecCodec: an event is encoded, and the message is read back
\* ------------------------------------------------------------------------
NotGenerated ==
    [status |-> "none", stmts |-> <<>>, idents |-> <<>>, await |-> FALSE,
     output_mapper |-> ""]
NoFunction == Function(<<>>, ReturnDefault, FALSE)

InitCodec ==
    /\ function_ast = NoFunction
    /\ handler = NotGenerated
    /\ pc = "encode"
    /\ RequestInit
    /\ event \in Events
    /\ requested \in Encodings
    /\ wire = Pending
    /\ decoded = Pending

WriteBinary ==
    /\ pc = "encode"
    /\ requested = BINARY
    /\ wire' = write_binary(event)
    /\ pc' = "sent"
    /\ UNCHANGED <<macro_vars, request_vars, event, requested, decoded>>

WriteStructured ==
    /\ pc = "encode"
    /\ requested = STRUCTURED
    /\ wire' = write_structured(event)
    /\ pc' = "sent"
    /\ UNCHANGED <<macro_vars, request_vars, event, requested, decoded>>

ReadBack ==
    /\ pc = "sent"
    /\ wire.kind = "Ok"
    /\ decoded' = read_cloud_event([headers |-> wire.val.headers,
                                    content_type |-> wire.val.content_type,
                                    body |-> wire.val.body])
    /\ pc' = "received"
    /\ UNCHANGED <<macro_vars, request_vars, event, requested, wire>>

NextCodec == WriteBinary \/ WriteStructured \/ ReadBack

SpecCodec == InitCodec /\ [][NextCodec]_vars

BinarySafe(e) ==
    e.payload.some =>
        /\ e.payload.val.data # <<>>
        /\ e.payload.val.content_type # STRUCTURED_CONTENT_TYPE

C9_BinaryEncoder ==
    (pc # "encode" /\ requested = BINARY) =>
        /\ wire.kind = "Ok"
        /\ wire.val.status = 200
        /\ wire.val.headers[CE_ID_HEADER] = Some(event.id)
        /\ wire.val.headers[CE_SPECVERSION_HEADER] =
              Some(IF event.spec_version = "V03" THEN "0.3" ELSE "1.0")
        /\ wire.val.headers[CE_SOURCE_HEADER] = Some(event.source)
        /\ wire.val.headers[CE_TYPE_HEADER] = Some(event.event_type)
        /\ wire.val.headers[CE_SUBJECT_HEADER] = event.subject
        /\ wire.val.headers[CE_TIME_HEADER].some = event.time.some
        /\ event.time.some =>
              wire.val.headers[CE_TIME_HEADER].val = to_rfc3339(event.time.val)
        /\ wire.val.content_type.some = event.payload.some
        /\ IF event.payload.some
           THEN /\ wire.val.content_type.val = event.payload.val.content_type
                /\ wire.val.body = Bytes(event.payload.val.data)
           ELSE wire.val.body = EmptyBody

C9_Witness ==
    /\ pc = "sent"
    /\ requested = BINARY
    /\ ~event.subject.some
    /\ event.time.some
    /\ event.payload.some
    /\ wire.kind = "Ok"
    /\ ~wire.val.headers[CE_SUBJECT_HEADER].some
    /\ wire.val.headers[CE_TIME_HEADER].some
    /\ wire.val.content_type = Some(event.payload.val.content_type)

\* ------------------------------------------------------------------------
\* SpecMacro: #[faas_function] expands a declared function
\* ------------------------------------------------------------------------
DeclaredParamTypes ==
    {TyEvent, TyQualifiedEvent, TyAssocEvent, TyGenericEvent, TyString,
     TyOptionEvent, TyOptionQualifiedEvent, TyOptionString, TyOptionBare,
     TyOptionLifetime, TyOptionRef, TyOptionEmpty, TyStdOptionEvent,
     TyGlobalOptionEvent, TyVecEvent, ReferenceType, TupleType}

DeclaredArgs == {Receiver} \cup {Typed(ty) : ty \in DeclaredParamTypes}

DeclaredOutputs ==
    {ReturnDefault, ReturnTypeOf(TyEvent), ReturnTypeOf(TyResult(TyString)),
     ReturnTypeOf(Generic("Result", <<TypeArg(TyEvent)>>)),
     ReturnTypeOf(TyResult(TyVecEmpty))}
    \cup {ReturnTypeOf(TyResult(v)) :
            v \in {TyEvent, TyQualifiedEvent, TyOptionEvent, TyVecEvent}}

DeclaredFunctions ==
    {Function(inputs, out, FALSE) :
        inputs \in SeqsUpTo(DeclaredArgs, MaxParams), out \in DeclaredOutputs}
    \cup {Function(<<Typed(TyEvent)>>, ReturnTypeOf(TyResult(TyEvent)), TRUE)}

InitMacro ==
    /\ function_ast \in DeclaredFunctions
    /\ handler = NotGenerated
    /\ pc = "source"
    /\ RequestInit
    /\ CodecIdle

faas_function ==
    /\ pc = "source"
    /\ handler' = generate_handler(function_ast)
    /\ pc' = "expanded"
    /\ UNCHANGED <<function_ast, request_vars, codec_vars>>

NextMacro == faas_function

SpecMacro == InitMacro /\ [][NextMacro]_vars

NamedEvent(ty) ==
    ty.kind = "Path" /\ ty.path.segments[Len(ty.path.segments)].ident = "Event"
PlainOption(ty) ==
    /\ ty.kind = "Path"
    /\ ~ty.qself
    /\ ~ty.path.leading_colon
    /\ Len(ty.path.segments) = 1
    /\ ty.path.segments[1].ident = "Option"
    /\ ty.path.segments[1].arguments.kind = "AngleBracketed"
OptionOfNamedEvent(ty) ==
    /\ PlainOption(ty)
    /\ Len(ty.path.segments[1].arguments.args) >= 1
    /\ ty.path.segments[1].arguments.args[1].kind = "Type"
    /\ NamedEvent(ty.path.segments[1].arguments.args[1].ty)
EmptyOption(ty) ==
    PlainOption(ty) /\ Len(ty.path.segments[1].arguments.args) = 0

====
